---- MODULE Spec2Model ----
(***************************************************************************)
(* Task organizer front end: the REST client for the /tasks API            *)
(* (api/tasks.js: safeReadBody, toHelpfulErrorMessage, requestJson and the *)
(* five operations) and the App component's state and handlers (App.js).   *)
(*                                                                         *)
(* JavaScript strings are sequences of string pieces, so that trim,        *)
(* startsWith, includes and "the message contains ..." are computed.  A    *)
(* JavaScript value is a record [t |-> typeof-like tag, v |-> payload].    *)
(***************************************************************************)
EXTENDS Integers, Sequences, FiniteSets, TLC

VARIABLES
    \* ---- App component state (App.js 16-23, 31) ----
    tasks,          \* useState([]): the local task list, a sequence of values
    newTitle,       \* useState(""): the add form's input
    loading,        \* useState(true)
    error,          \* useState(""): the displayed error
    editingId,      \* useState(null): 0 stands for null
    editingTitle,   \* useState("")
    cancelled,      \* the effect's liveness flag, set by its cleanup
    \* ---- the world the App talks to ----
    inflight,       \* slot -> pending handler call (its closure) or NoCall
    server,         \* the remote /tasks resource: id -> Task value
    nextId,         \* the identifier the server assigns next
    issued,         \* the number of requests the session has sent
    \* ---- one client operation applied to one response ----
    call            \* NoCall, or [op, id, res, out] of a finished client call

vars == <<tasks, newTitle, loading, error, editingId, editingTitle, cancelled,
          inflight, server, nextId, issued, call>>

appVars == <<tasks, newTitle, loading, error, editingId, editingTitle, cancelled,
             inflight, server, nextId, issued>>

----------------------------------------------------------------------------
\* Bounds of the model.

\* Largest identifier the server assigns.
MaxId == 2
\* Number of handler calls that may be pending at once.
MaxInFlight == 2
\* Number of requests a session sends, the initial load included.
MaxCalls == 3

----------------------------------------------------------------------------
\* JavaScript values.

Undefined == [t |-> "undefined", v |-> <<>>]
Null == [t |-> "null", v |-> <<>>]
Bool(b) == [t |-> "boolean", v |-> b]
Num(n) == [t |-> "number", v |-> n]
Str(s) == [t |-> "string", v |-> s]
Obj(f) == [t |-> "object", v |-> f]
Arr(s) == [t |-> "array", v |-> s]

\* typeof x === "string"
IsString(x) == x.t = "string"

\* JavaScript truthiness of a value.
Truthy(x) ==
    CASE x.t = "undefined" -> FALSE
      [] x.t = "null" -> FALSE
      [] x.t = "boolean" -> x.v
      [] x.t = "number" -> x.v # 0
      [] x.t = "string" -> x.v # <<>>
      [] OTHER -> TRUE

\* x.key: undefined when x is not an object or has no such field.
Field(x, key) ==
    IF x.t = "object" /\ key \in DOMAIN x.v THEN x.v[key] ELSE Undefined

\* Equality of two values, tag first (payloads of different tags are not compared).
SameValue(x, y) == x.t = y.t /\ x.v = y.v

\* The Task representation of the wire protocol: {id, title, is_completed}.
Task(id, title, done) ==
    Obj([id |-> Num(id), title |-> Str(title), is_completed |-> Bool(done)])

----------------------------------------------------------------------------
\* Strings as sequences of pieces.

Whitespace == {" ", "\n"}

RECURSIVE TrimStart(_)
TrimStart(s) ==
    IF s # <<>> /\ Head(s) \in Whitespace THEN TrimStart(Tail(s)) ELSE s

RECURSIVE TrimEnd(_)
TrimEnd(s) ==
    IF s # <<>> /\ s[Len(s)] \in Whitespace
    THEN TrimEnd(SubSeq(s, 1, Len(s) - 1))
    ELSE s

\* String.prototype.trim
Trim(s) == TrimEnd(TrimStart(s))

\* String.prototype.startsWith
StartsWith(s, p) == Len(s) >= Len(p) /\ SubSeq(s, 1, Len(p)) = p

\* String.prototype.includes
Includes(s, p) ==
    \E i \in 1..(Len(s) - Len(p) + 1) : SubSeq(s, i, i + Len(p) - 1) = p

\* String.prototype.toLowerCase, on the pieces content types are made of.
LowerPiece(p) ==
    CASE p = "Application/JSON" -> "application/json"
      [] p = "Text/HTML" -> "text/html"
      [] OTHER -> p

ToLowerCase(s) == [i \in 1..Len(s) |-> LowerPiece(s[i])]

----------------------------------------------------------------------------
\* JSON text.  JSON.stringify and Response.json() belong to the platform; they
\* are modelled by what they do on texts made of pieces: a literal, a number,
\* a quoted string, an object {"k":v,...} and an array [v,...].

Q == "\""

\* The decimal texts of the numbers that occur in bodies.
IsNumPiece(p) == \E n \in 0..9 : ToString(n) = p
NumOfPiece(p) == CHOOSE n \in 0..9 : ToString(n) = p

\* The order in which the known keys are written.
KeyOrder == <<"id", "title", "is_completed", "error", "__parse_error", "__raw", "__error">>

RECURSIVE Join(_)
\* The texts of a sequence, separated by commas.
Join(texts) ==
    IF texts = <<>> THEN <<>>
    ELSE IF Len(texts) = 1 THEN texts[1]
    ELSE texts[1] \o <<",">> \o Join(Tail(texts))

RECURSIVE Stringify(_)
\* JSON.stringify
Stringify(x) ==
    CASE x.t = "null" -> <<"null">>
      [] x.t = "boolean" -> IF x.v THEN <<"true">> ELSE <<"false">>
      [] x.t = "number" -> <<ToString(x.v)>>
      [] x.t = "string" -> <<Q>> \o x.v \o <<Q>>
      [] x.t = "array" ->
            <<"[">> \o Join([i \in 1..Len(x.v) |-> Stringify(x.v[i])]) \o <<"]">>
      [] x.t = "object" ->
            LET keys == SelectSeq(KeyOrder, LAMBDA k : k \in DOMAIN x.v)
            IN  <<"{">>
                \o Join([i \in 1..Len(keys) |->
                            <<Q, keys[i], Q, ":">> \o Stringify(x.v[keys[i]])])
                \o <<"}">>
      [] OTHER -> <<>>

\* The piece at position i lies inside a quoted string.
InString(toks, i) == Cardinality({j \in 1..(i - 1) : toks[j] = Q}) % 2 = 1

\* The number of brackets open at position i.
Depth(toks, i) ==
    Cardinality({j \in 1..(i - 1) : toks[j] \in {"{", "["} /\ ~InString(toks, j)})
    - Cardinality({j \in 1..(i - 1) : toks[j] \in {"}", "]"} /\ ~InString(toks, j)})

\* The positions of the commas that separate the parts of a text: those
\* outside brackets and strings.
TopCommas(toks) ==
    {i \in 1..Len(toks) : toks[i] = "," /\ ~InString(toks, i) /\ Depth(toks, i) = 0}

RECURSIVE SplitAt(_, _, _)
\* The parts of a text between the given comma positions, from position from on.
SplitAt(toks, commas, from) ==
    IF commas = {} THEN <<SubSeq(toks, from, Len(toks))>>
    ELSE LET c == CHOOSE i \in commas : \A j \in commas : i <= j
         IN  <<SubSeq(toks, from, c - 1)>> \o SplitAt(toks, commas \ {c}, c + 1)

\* The comma-separated parts of a text.
SplitTop(toks) == SplitAt(toks, TopCommas(toks), 1)

Inner(toks) == SubSeq(toks, 2, Len(toks) - 1)

ParseFail == [ok |-> FALSE, val |-> Undefined]
Parsed(x) == [ok |-> TRUE, val |-> x]

RECURSIVE JsonParse(_)
\* JSON.parse: [ok, val]; ok is FALSE where JSON.parse throws a SyntaxError.
JsonParse(toks) ==
    IF toks = <<>> THEN ParseFail
    ELSE IF Len(toks) = 1 THEN
        CASE toks[1] = "null" -> Parsed(Null)
          [] toks[1] = "true" -> Parsed(Bool(TRUE))
          [] toks[1] = "false" -> Parsed(Bool(FALSE))
          [] IsNumPiece(toks[1]) -> Parsed(Num(NumOfPiece(toks[1])))
          [] OTHER -> ParseFail
    ELSE IF Head(toks) = Q THEN
        IF toks[Len(toks)] = Q /\ \A i \in 2..(Len(toks) - 1) : toks[i] # Q
        THEN Parsed(Str(Inner(toks)))
        ELSE ParseFail
    ELSE IF Head(toks) = "[" THEN
        IF toks[Len(toks)] # "]" THEN ParseFail
        ELSE IF Len(toks) = 2 THEN Parsed(Arr(<<>>))
        ELSE LET parts == SplitTop(Inner(toks))
                 elems == [i \in 1..Len(parts) |-> JsonParse(parts[i])]
             IN  IF \A i \in 1..Len(parts) : elems[i].ok
                 THEN Parsed(Arr([i \in 1..Len(parts) |-> elems[i].val]))
                 ELSE ParseFail
    ELSE IF Head(toks) = "{" THEN
        IF toks[Len(toks)] # "}" THEN ParseFail
        ELSE IF Len(toks) = 2 THEN Parsed(Obj(<<>>))
        ELSE LET parts == SplitTop(Inner(toks))
                 wellFormed(m) == /\ Len(m) >= 5
                                  /\ m[1] = Q /\ m[2] # Q /\ m[3] = Q /\ m[4] = ":"
                 member(m) == JsonParse(SubSeq(m, 5, Len(m)))
             IN  IF \A i \in 1..Len(parts) :
                        wellFormed(parts[i]) /\ member(parts[i]).ok
                 THEN LET keys == {parts[i][2] : i \in 1..Len(parts)}
                          lastOf(k) == CHOOSE i \in 1..Len(parts) :
                                          /\ parts[i][2] = k
                                          /\ \A j \in (i + 1)..Len(parts) : parts[j][2] # k
                      IN  Parsed(Obj([k \in keys |-> member(parts[lastOf(k)]).val]))
                 ELSE ParseFail
    ELSE ParseFail

----------------------------------------------------------------------------
\* The REST client (api/tasks.js).  fetch's result is a response record
\* [rejected, status, ctype, body, unreadable]: rejected when the transport
\* fails; ctype the content-type header (<<>> when absent); body the text the
\* server sent; unreadable when reading the body itself fails.

Response(status, ctype, body) ==
    [rejected |-> FALSE, status |-> status, ctype |-> ctype, body |-> body,
     unreadable |-> FALSE]

NetworkError ==
    [rejected |-> TRUE, status |-> 0, ctype |-> <<>>, body |-> <<>>, unreadable |-> FALSE]

\* Response.ok
Ok(res) == res.status \in 200..299

\* The outcome of an async function: it throws an Error or returns a value.
Threw(msg) == [threw |-> TRUE, message |-> msg, value |-> Undefined]
Returned(x) == [threw |-> FALSE, message |-> <<>>, value |-> x]

\* The requests the five operations send.
Request(method, path, body) == [method |-> method, path |-> path, body |-> body]

TasksPath == <<"/tasks">>
TaskPath(taskId) == <<"/tasks/", ToString(taskId)>>
TogglePath(taskId) == <<"/tasks/", ToString(taskId), "/toggle">>

\* What safeReadBody returns when res.json() throws: res.text() on the body
\* json() has consumed rejects, and its catch gives "".
ParseErrorBody ==
    Obj([k \in {"__parse_error", "__raw", "__error"} |->
            CASE k = "__parse_error" -> Bool(TRUE)
              [] k = "__raw" -> Str(<<>>)
              [] OTHER -> Str(<<"SyntaxError">>)])

\* safeReadBody falling back to the text when the JSON does not decode.
safeReadBody_TextOnParseError(res) ==
    LET contentType == ToLowerCase(res.ctype)
        text == Str(IF res.unreadable THEN <<>> ELSE res.body)
    IN  IF \/ Includes(contentType, <<"application/json">>)
           \/ Includes(contentType, <<"+json">>)
        THEN LET parsed == IF res.unreadable THEN ParseFail ELSE JsonParse(res.body)
             IN  IF parsed.ok THEN parsed.val ELSE text
        ELSE text

safeReadBody(res) ==
    LET contentType == ToLowerCase(res.ctype)
    IN  IF \/ Includes(contentType, <<"application/json">>)
           \/ Includes(contentType, <<"+json">>)
        THEN LET parsed == IF res.unreadable THEN ParseFail ELSE JsonParse(res.body)
             IN  IF parsed.ok THEN parsed.val ELSE ParseErrorBody
        ELSE Str(IF res.unreadable THEN <<>> ELSE res.body)

HtmlHint == <<"Received HTML instead of JSON", ". Check API base URL configuration.">>
OtherHint == <<"Unexpected response from server.">>

toHelpfulErrorMessage(method, path, status, body) ==
    LET hint == IF IsString(body) /\ StartsWith(Trim(body.v), <<"<!DOCTYPE">>)
                THEN HtmlHint
                ELSE OtherHint
    IN  <<method, " ">> \o path \o <<" failed (", ToString(status), "). ">> \o hint

NonJsonMessage(method, path) ==
    <<"Unexpected non-JSON response", " for ", method, " ">> \o path
        \o <<". Check API base URL configuration.">>

InvalidJsonMessage(method, path) ==
    <<"Invalid JSON response", " for ", method, " ">> \o path
        \o <<". Check API base URL configuration.">>

\* The error fetch itself rejects with.
FetchFailedMessage == <<"Failed to fetch">>

\* requestJson looking at the body before it looks at the status.
requestJson_BodyBeforeStatus(path, optMethod, res) ==
    LET method == IF optMethod = "" THEN "GET" ELSE optMethod
        body == safeReadBody(res)
    IN  IF res.rejected THEN Threw(FetchFailedMessage)
        ELSE IF IsString(body) THEN Threw(NonJsonMessage(method, path))
        ELSE IF Truthy(body) /\ Truthy(Field(body, "__parse_error"))
             THEN Threw(InvalidJsonMessage(method, path))
        ELSE IF ~Ok(res)
             THEN Threw(toHelpfulErrorMessage(method, path, res.status, body))
        ELSE Returned(body)

\* requestJson without its check for a text body.
requestJson_NoStringCheck(path, optMethod, res) ==
    LET method == IF optMethod = "" THEN "GET" ELSE optMethod
        body == safeReadBody(res)
    IN  IF res.rejected THEN Threw(FetchFailedMessage)
        ELSE IF ~Ok(res)
             THEN Threw(toHelpfulErrorMessage(method, path, res.status, body))
        ELSE IF Truthy(body) /\ Truthy(Field(body, "__parse_error"))
             THEN Threw(InvalidJsonMessage(method, path))
        ELSE Returned(body)

\* requestJson(path, options) on the response fetch gave; method is
\* options.method, "" when the options carry none.
requestJson(path, optMethod, res) ==
    LET method == IF optMethod = "" THEN "GET" ELSE optMethod
        body == safeReadBody(res)
    IN  IF res.rejected THEN Threw(FetchFailedMessage)
        ELSE IF ~Ok(res)
             THEN Threw(toHelpfulErrorMessage(method, path, res.status, body))
        ELSE IF IsString(body) THEN Threw(NonJsonMessage(method, path))
        ELSE IF Truthy(body) /\ Truthy(Field(body, "__parse_error"))
             THEN Threw(InvalidJsonMessage(method, path))
        ELSE Returned(body)

listTasksRequest == Request("GET", TasksPath, <<>>)
listTasks(res) == requestJson(TasksPath, "", res)

createTaskRequest(title) ==
    Request("POST", TasksPath, Stringify(Obj([title |-> Str(title)])))
createTask(title, res) == requestJson(TasksPath, "POST", res)

updateTaskRequest(taskId, patch) == Request("PUT", TaskPath(taskId), Stringify(patch))
updateTask(taskId, patch, res) == requestJson(TaskPath(taskId), "PUT", res)

toggleTaskRequest(taskId) == Request("POST", TogglePath(taskId), <<>>)
toggleTask(taskId, res) == requestJson(TogglePath(taskId), "POST", res)

deleteTaskRequest(taskId) == Request("DELETE", TaskPath(taskId), <<>>)
\* deleteTask written like the other four operations.
deleteTask_ViaRequestJson(taskId, res) == requestJson(TaskPath(taskId), "DELETE", res)

deleteTask(taskId, res) ==
    IF res.rejected THEN Threw(FetchFailedMessage)
    ELSE IF ~Ok(res)
         THEN Threw(toHelpfulErrorMessage("DELETE", TaskPath(taskId), res.status,
                                          safeReadBody(res)))
    ELSE Returned(Undefined)

----------------------------------------------------------------------------
\* The remote /tasks resource the client talks to (not part of this
\* repository): it holds Tasks by identifier, assigns identifiers in
\* increasing order and answers as the wire protocol says.

JsonType == <<"application/json">>

RECURSIVE IdsAscending(_)
\* The identifiers of a set, smallest first.
IdsAscending(ids) ==
    IF ids = {} THEN <<>>
    ELSE LET m == CHOOSE i \in ids : \A j \in ids : i <= j
         IN  <<m>> \o IdsAscending(ids \ {m})

ServerList(srv) ==
    LET ids == IdsAscending(DOMAIN srv)
    IN  Arr([i \in 1..Len(ids) |-> srv[ids[i]]])

NotFound == Response(404, JsonType, Stringify(Obj([error |-> Str(<<"not found">>)])))

\* The identifier a task path names: the piece after "/tasks/".
PathId(path) == NumOfPiece(path[2])

\* The server's answer to a request and the resource after it: [res, srv, next].
ServerAnswer(req, srv, next) ==
    LET keep(res) == [res |-> res, srv |-> srv, next |-> next]
        put(t) == [res |-> Response(200, JsonType, Stringify(t)),
                   srv |-> [srv EXCEPT ![PathId(req.path)] = t],
                   next |-> next]
    IN  IF req.path = TasksPath THEN
            IF req.method = "GET"
            THEN keep(Response(200, JsonType, Stringify(ServerList(srv))))
            ELSE LET t == Task(next, Field(JsonParse(req.body).val, "title").v, FALSE)
                 IN  [res |-> Response(201, JsonType, Stringify(t)),
                      srv |-> [i \in DOMAIN srv \cup {next} |->
                                  IF i = next THEN t ELSE srv[i]],
                      next |-> next + 1]
        ELSE IF PathId(req.path) \notin DOMAIN srv THEN keep(NotFound)
        ELSE LET old == srv[PathId(req.path)]
             IN  IF req.method = "DELETE"
                 THEN [res |-> Response(204, <<>>, <<>>),
                       srv |-> [i \in DOMAIN srv \ {PathId(req.path)} |-> srv[i]],
                       next |-> next]
                 ELSE IF req.method = "PUT"
                 THEN LET patch == JsonParse(req.body).val
                          pick(k) == IF k \in DOMAIN patch.v THEN patch.v[k] ELSE old.v[k]
                      IN  put(Obj([k \in DOMAIN old.v |-> pick(k)]))
                 ELSE put(Obj([old.v EXCEPT !["is_completed"] = Bool(~old.v["is_completed"].v)]))

\* What a failing deployment answers instead: a server error with a JSON
\* body, or the development server's HTML page (wrong base URL).
HtmlPage == <<"<!DOCTYPE", " html>", "<html>">>

FailureResponses ==
    { Response(500, JsonType, Stringify(Obj([error |-> Str(<<"boom">>)]))),
      Response(200, <<"text/html">>, HtmlPage) }

----------------------------------------------------------------------------
\* The App component (App.js).

\* The comparator of sortTasks: completed tasks last, otherwise newer first.
Compare(a, b) ==
    IF Field(a, "is_completed") # Field(b, "is_completed")
    THEN IF Truthy(Field(a, "is_completed")) THEN 1 ELSE -1
    ELSE Field(b, "id").v - Field(a, "id").v

RECURSIVE InsertSorted(_, _)
\* x put behind every element that does not sort after it (the sort is stable).
InsertSorted(sorted, x) ==
    IF sorted = <<>> THEN <<x>>
    ELSE IF Compare(Head(sorted), x) <= 0
         THEN <<Head(sorted)>> \o InsertSorted(Tail(sorted), x)
         ELSE <<x>> \o sorted

RECURSIVE SortFrom(_, _)
SortFrom(list, sorted) ==
    IF list = <<>> THEN sorted
    ELSE SortFrom(Tail(list), InsertSorted(sorted, Head(list)))

sortTasks(list) == SortFrom(list, <<>>)

\* e.message || fallback
MessageOr(msg, fallback) == IF msg = <<>> THEN fallback ELSE msg

\* A pending handler call: what its closure captured when it was called, and
\* the response once the server has answered.
NoResponse ==
    [rejected |-> FALSE, status |-> 0, ctype |-> <<>>, body |-> <<>>, unreadable |-> FALSE]

NoCall ==
    [kind |-> "none", id |-> 0, title |-> <<>>, seenEditingId |-> 0,
     phase |-> "none", res |-> NoResponse]

Sent(kind, id, title, seen) ==
    [kind |-> kind, id |-> id, title |-> title, seenEditingId |-> seen,
     phase |-> "sent", res |-> NoResponse]

Slots == 1..MaxInFlight

FreeSlots == {s \in Slots : inflight[s] = NoCall}

\* The slot a new call takes.
NewSlot == CHOOSE s \in FreeSlots : \A r \in FreeSlots : s <= r

\* The request a pending call sent.
RequestOf(c) ==
    CASE c.kind = "load" -> listTasksRequest
      [] c.kind = "add" -> createTaskRequest(c.title)
      [] c.kind = "toggle" -> toggleTaskRequest(c.id)
      [] c.kind = "save" -> updateTaskRequest(c.id, Obj([title |-> Str(c.title)]))
      [] OTHER -> deleteTaskRequest(c.id)

\* What the client operation of a pending call gives on its response.
OutcomeOf(c) ==
    CASE c.kind = "load" -> listTasks(c.res)
      [] c.kind = "add" -> createTask(c.title, c.res)
      [] c.kind = "toggle" -> toggleTask(c.id, c.res)
      [] c.kind = "save" -> updateTask(c.id, Obj([title |-> Str(c.title)]), c.res)
      [] OTHER -> deleteTask(c.id, c.res)

\* The identifiers of the local list's entries.
LocalIds == {Field(tasks[i], "id").v : i \in 1..Len(tasks)}

\* The list is on screen: mounted and not loading.
ListShown == ~cancelled /\ ~loading

\* What the user may type into a title input.
InputTitles == {<<>>, <<" ", "b", " ">>}

\* ---- handlers up to their await ----

\* onChange of the add form's input.
SetNewTitle(t) ==
    /\ ~cancelled
    /\ newTitle # t
    /\ newTitle' = t
    /\ UNCHANGED <<tasks, loading, error, editingId, editingTitle, cancelled,
                   inflight, server, nextId, issued, call>>

\* The number of create requests the server has yet to handle.
PendingCreates ==
    Cardinality({s \in Slots : inflight[s].kind = "add" /\ inflight[s].phase = "sent"})

handleAdd ==
    /\ ~cancelled
    /\ Trim(newTitle) # <<>>
    /\ FreeSlots # {}
    /\ issued < MaxCalls
    /\ issued' = issued + 1
    /\ nextId + PendingCreates <= MaxId
    /\ error' = <<>>
    /\ inflight' = [inflight EXCEPT ![NewSlot] = Sent("add", 0, Trim(newTitle), 0)]
    /\ UNCHANGED <<tasks, newTitle, loading, editingId, editingTitle, cancelled,
                   server, nextId, call>>

handleToggle(id) ==
    /\ ListShown
    /\ id \in LocalIds
    /\ FreeSlots # {}
    /\ issued < MaxCalls
    /\ issued' = issued + 1
    /\ error' = <<>>
    /\ inflight' = [inflight EXCEPT ![NewSlot] = Sent("toggle", id, <<>>, 0)]
    /\ UNCHANGED <<tasks, newTitle, loading, editingId, editingTitle, cancelled,
                   server, nextId, call>>

\* The Edit button of a row that is not being edited.
beginEdit(i) ==
    /\ ListShown
    /\ i \in 1..Len(tasks)
    /\ editingId # Field(tasks[i], "id").v
    /\ editingId' = Field(tasks[i], "id").v
    /\ editingTitle' = Field(tasks[i], "title").v
    /\ UNCHANGED <<tasks, newTitle, loading, error, cancelled, inflight, server,
                   nextId, issued, call>>

\* The Cancel button of the row being edited.
cancelEdit ==
    /\ ListShown
    /\ editingId \in LocalIds
    /\ editingId' = 0
    /\ editingTitle' = <<>>
    /\ UNCHANGED <<tasks, newTitle, loading, error, cancelled, inflight, server,
                   nextId, issued, call>>

\* onChange of the input of the row being edited.
SetEditingTitle(t) ==
    /\ ListShown
    /\ editingId \in LocalIds
    /\ editingTitle # t
    /\ editingTitle' = t
    /\ UNCHANGED <<tasks, newTitle, loading, error, editingId, cancelled, inflight,
                   server, nextId, issued, call>>

\* The Save button of the row being edited.
saveEdit ==
    /\ ListShown
    /\ editingId \in LocalIds
    /\ Trim(editingTitle) # <<>>
    /\ FreeSlots # {}
    /\ issued < MaxCalls
    /\ issued' = issued + 1
    /\ error' = <<>>
    /\ inflight' = [inflight EXCEPT ![NewSlot] = Sent("save", editingId, Trim(editingTitle), 0)]
    /\ UNCHANGED <<tasks, newTitle, loading, editingId, editingTitle, cancelled,
                   server, nextId, call>>

handleDelete(taskId) ==
    /\ ListShown
    /\ taskId \in LocalIds
    /\ FreeSlots # {}
    /\ issued < MaxCalls
    /\ issued' = issued + 1
    /\ error' = <<>>
    /\ inflight' = [inflight EXCEPT ![NewSlot] = Sent("delete", taskId, <<>>, editingId)]
    /\ UNCHANGED <<tasks, newTitle, loading, editingId, editingTitle, cancelled,
                   server, nextId, call>>

\* The effect's cleanup; React drops the state updates of an unmounted
\* component.  Only load() reads the flag, so an unmount after the load has
\* finished is the end of the session and is not followed further.
Unmount ==
    /\ ~cancelled
    /\ loading
    /\ cancelled' = TRUE
    /\ UNCHANGED <<tasks, newTitle, loading, error, editingId, editingTitle,
                   inflight, server, nextId, issued, call>>

\* ---- the network ----

\* The server handles a request and answers it.
ServerHandle(s) ==
    /\ inflight[s].phase = "sent"
    /\ LET a == ServerAnswer(RequestOf(inflight[s]), server, nextId)
       IN  /\ server' = a.srv
           /\ nextId' = a.next
           /\ inflight' = [inflight EXCEPT ![s].phase = "answered", ![s].res = a.res]
    /\ UNCHANGED <<tasks, newTitle, loading, error, editingId, editingTitle,
                   cancelled, issued, call>>

\* The request never reaches the server, or reaches something else.
ServerFail(s, res) ==
    /\ inflight[s].phase = "sent"
    /\ inflight' = [inflight EXCEPT ![s].phase = "answered", ![s].res = res]
    /\ UNCHANGED <<tasks, newTitle, loading, error, editingId, editingTitle,
                   cancelled, server, nextId, issued, call>>

\* ---- handlers from their await on ----

\* The map with its test inverted.
MapReplace_Inverted(list, id, updated) ==
    [i \in 1..Len(list) |-> IF Field(list[i], "id") # Num(id) THEN updated ELSE list[i]]

MapReplace(list, id, updated) ==
    [i \in 1..Len(list) |-> IF Field(list[i], "id") = Num(id) THEN updated ELSE list[i]]

FilterOut(list, id) == SelectSeq(list, LAMBDA t : Field(t, "id") # Num(id))

\* load() of the mount effect, lines 37-43.
loadArrives(c, out) ==
    /\ IF cancelled
       THEN UNCHANGED <<tasks, error, loading>>
       ELSE /\ loading' = FALSE
            /\ IF out.threw
               THEN /\ error' = MessageOr(out.message, <<"Failed to load tasks.">>)
                    /\ tasks' = tasks
               ELSE IF out.value.t # "array"
               THEN /\ error' = <<"tasks is not iterable">>
                    /\ tasks' = tasks
               ELSE /\ tasks' = sortTasks(out.value.v)
                    /\ error' = error
    /\ UNCHANGED <<newTitle, editingId, editingTitle>>

\* handleAdd, lines 59-64.
addArrives(c, out) ==
    IF cancelled THEN UNCHANGED <<tasks, newTitle, loading, error, editingId, editingTitle>>
    ELSE IF out.threw
    THEN /\ error' = MessageOr(out.message, <<"Failed to create task.">>)
         /\ UNCHANGED <<tasks, newTitle, loading, editingId, editingTitle>>
    ELSE /\ tasks' = sortTasks(<<out.value>> \o tasks)
         /\ newTitle' = <<>>
         /\ UNCHANGED <<loading, error, editingId, editingTitle>>

\* handleToggle storing the mapped list without sorting it.
toggleArrives_NoSort(c, out) ==
    IF cancelled THEN UNCHANGED <<tasks, newTitle, loading, error, editingId, editingTitle>>
    ELSE IF out.threw
    THEN /\ error' = MessageOr(out.message, <<"Failed to toggle task.">>)
         /\ UNCHANGED <<tasks, newTitle, loading, editingId, editingTitle>>
    ELSE /\ tasks' = MapReplace(tasks, c.id, out.value)
         /\ UNCHANGED <<newTitle, loading, error, editingId, editingTitle>>

\* handleToggle, lines 70-74.
toggleArrives(c, out) ==
    IF cancelled THEN UNCHANGED <<tasks, newTitle, loading, error, editingId, editingTitle>>
    ELSE IF out.threw
    THEN /\ error' = MessageOr(out.message, <<"Failed to toggle task.">>)
         /\ UNCHANGED <<tasks, newTitle, loading, editingId, editingTitle>>
    ELSE /\ tasks' = sortTasks(MapReplace(tasks, c.id, out.value))
         /\ UNCHANGED <<newTitle, loading, error, editingId, editingTitle>>

\* saveEdit leaving edit mode whether or not the update succeeded.
saveArrives_CancelAlways(c, out) ==
    IF cancelled THEN UNCHANGED <<tasks, newTitle, loading, error, editingId, editingTitle>>
    ELSE IF out.threw
    THEN /\ error' = MessageOr(out.message, <<"Failed to update task.">>)
         /\ editingId' = 0
         /\ editingTitle' = <<>>
         /\ UNCHANGED <<tasks, newTitle, loading>>
    ELSE /\ tasks' = sortTasks(MapReplace(tasks, c.id, out.value))
         /\ editingId' = 0
         /\ editingTitle' = <<>>
         /\ UNCHANGED <<newTitle, loading, error>>

\* saveEdit, lines 93-98.
saveArrives(c, out) ==
    IF cancelled THEN UNCHANGED <<tasks, newTitle, loading, error, editingId, editingTitle>>
    ELSE IF out.threw
    THEN /\ error' = MessageOr(out.message, <<"Failed to update task.">>)
         /\ UNCHANGED <<tasks, newTitle, loading, editingId, editingTitle>>
    ELSE /\ tasks' = sortTasks(MapReplace(tasks, c.id, out.value))
         /\ editingId' = 0
         /\ editingTitle' = <<>>
         /\ UNCHANGED <<newTitle, loading, error>>

\* handleDelete, lines 104-109; editingId is the one its closure captured.
deleteArrives(c, out) ==
    IF cancelled THEN UNCHANGED <<tasks, newTitle, loading, error, editingId, editingTitle>>
    ELSE IF out.threw
    THEN /\ error' = MessageOr(out.message, <<"Failed to delete task.">>)
         /\ UNCHANGED <<tasks, newTitle, loading, editingId, editingTitle>>
    ELSE /\ tasks' = FilterOut(tasks, c.id)
         /\ IF c.seenEditingId = c.id
            THEN editingId' = 0 /\ editingTitle' = <<>>
            ELSE UNCHANGED <<editingId, editingTitle>>
         /\ UNCHANGED <<newTitle, loading, error>>

\* The response of a pending call arrives and its handler resumes.
Arrive(s) ==
    /\ inflight[s].phase = "answered"
    /\ LET c == inflight[s]
           out == OutcomeOf(c)
       IN  CASE c.kind = "load" -> loadArrives(c, out)
             [] c.kind = "add" -> addArrives(c, out)
             [] c.kind = "toggle" -> toggleArrives(c, out)
             [] c.kind = "save" -> saveArrives(c, out)
             [] OTHER -> deleteArrives(c, out)
    /\ inflight' = [inflight EXCEPT ![s] = NoCall]
    /\ UNCHANGED <<cancelled, server, nextId, issued, call>>


----------------------------------------------------------------------------
\* One client operation applied to one response: every operation, over the
\* statuses, content types and bodies a server or a proxy may send.

Statuses == {200, 201, 204, 304, 404, 500}

ContentTypes ==
    { <<>>,
      <<"application/json">>,
      <<"application/json", "; charset=utf-8">>,
      <<"Application/JSON">>,
      <<"application/problem", "+json">>,
      <<"text/html">>,
      <<"text/plain">> }

Bodies ==
    { <<>>,
      HtmlPage,
      <<"\n", "<!DOCTYPE", " html>">>,
      <<"<html>">>,
      <<"Not Found">>,
      <<"{", Q, "id", Q, ":">>,
      <<"null">>,
      <<"true">>,
      <<"false">>,
      Stringify(Num(0)),
      Stringify(Num(7)),
      Stringify(Str(<<>>)),
      Stringify(Str(<<"hello">>)),
      Stringify(Str(HtmlPage)),
      Stringify(Task(7, <<"Buy milk">>, FALSE)),
      Stringify(Arr(<<Task(2, <<"b">>, FALSE), Task(1, <<"a">>, TRUE)>>)),
      Stringify(Arr(<<>>)),
      Stringify(Obj([error |-> Str(<<"not found">>)])),
      Stringify(Obj([k \in {"__parse_error"} |-> Bool(TRUE)])),
      Stringify(Obj([k \in {"__parse_error"} |-> Bool(FALSE)])) }

Responses ==
    {NetworkError}
    \cup [rejected : {FALSE}, status : Statuses, ctype : ContentTypes, body : Bodies,
          unreadable : BOOLEAN]

Idle ==
    [op |-> "none", method |-> "", path |-> <<>>, res |-> NoResponse,
     out |-> Returned(Undefined)]

\* A finished call: the operation, the request it sent, the response and the outcome.
Called(op, req, res, out) ==
    [op |-> op, method |-> req.method, path |-> req.path, res |-> res, out |-> out]

CallListTasks(res) ==
    /\ call = Idle
    /\ call' = Called("list", listTasksRequest, res, listTasks(res))
    /\ UNCHANGED appVars

CallCreateTask(title, res) ==
    /\ call = Idle
    /\ call' = Called("create", createTaskRequest(title), res, createTask(title, res))
    /\ UNCHANGED appVars

CallUpdateTask(taskId, patch, res) ==
    /\ call = Idle
    /\ call' = Called("update", updateTaskRequest(taskId, patch), res,
                      updateTask(taskId, patch, res))
    /\ UNCHANGED appVars

CallToggleTask(taskId, res) ==
    /\ call = Idle
    /\ call' = Called("toggle", toggleTaskRequest(taskId), res, toggleTask(taskId, res))
    /\ UNCHANGED appVars

CallDeleteTask(taskId, res) ==
    /\ call = Idle
    /\ call' = Called("delete", deleteTaskRequest(taskId), res, deleteTask(taskId, res))
    /\ UNCHANGED appVars

\* The caller is done with the outcome.
Forget ==
    /\ call # Idle
    /\ call' = Idle
    /\ UNCHANGED appVars

ClientInit ==
    /\ tasks = <<>>
    /\ newTitle = <<>>
    /\ loading = TRUE
    /\ error = <<>>
    /\ editingId = 0
    /\ editingTitle = <<>>
    /\ cancelled = FALSE
    /\ inflight = [s \in Slots |-> NoCall]
    /\ server = <<>>
    /\ nextId = 1
    /\ issued = 0
    /\ call = Idle

ClientNext ==
    \/ \E res \in Responses : CallListTasks(res)
    \/ \E res \in Responses : CallCreateTask(<<"b">>, res)
    \/ \E id \in 1..MaxId, res \in Responses :
          CallUpdateTask(id, Obj([title |-> Str(<<"b">>)]), res)
    \/ \E id \in 1..MaxId, res \in Responses : CallToggleTask(id, res)
    \/ \E id \in 1..MaxId, res \in Responses : CallDeleteTask(id, res)
    \/ Forget

ClientSpec == ClientInit /\ [][ClientNext]_vars
----------------------------------------------------------------------------
\* The App against its server.

\* The servers a session may start against.
InitServers ==
    { <<>>, <<Task(1, <<"a">>, FALSE)>> }

Init ==
    /\ tasks = <<>>
    /\ newTitle = <<>>
    /\ loading = TRUE
    /\ error = <<>>
    /\ editingId = 0
    /\ editingTitle = <<>>
    /\ cancelled = FALSE
    /\ inflight = [s \in Slots |-> IF s = 1 THEN Sent("load", 0, <<>>, 0) ELSE NoCall]
    /\ server \in InitServers
    /\ nextId = Len(server) + 1
    /\ issued = 1
    /\ call = Idle

Next ==
    \/ \E t \in InputTitles : SetNewTitle(t)
    \/ handleAdd
    \/ \E id \in 1..MaxId : handleToggle(id)
    \/ \E i \in 1..MaxId : beginEdit(i)
    \/ cancelEdit
    \/ \E t \in InputTitles : SetEditingTitle(t)
    \/ saveEdit
    \/ \E id \in 1..MaxId : handleDelete(id)
    \/ Unmount
    \/ \E s \in Slots : ServerHandle(s)
    \/ \E s \in Slots : \E res \in FailureResponses : ServerFail(s, res)
    \/ \E s \in Slots : Arrive(s)

Spec == Init /\ [][Next]_vars

----------------------------------------------------------------------------
\* Properties of the client, checked under ClientSpec.

\* The call answered by a response (the transport did not fail).
Answered == call.op # "none" /\ ~call.res.rejected

\* The content type makes safeReadBody decode the body as JSON.
IsJsonType(ctype) ==
    \/ Includes(ToLowerCase(ctype), <<"application/json">>)
    \/ Includes(ToLowerCase(ctype), <<"+json">>)

\* The client can read the body and it decodes as JSON.
BodyParses(res) == ~res.unreadable /\ JsonParse(res.body).ok

\* "{METHOD} {PATH} failed ({STATUS})." for the request the call sent.
FailedPrefix ==
    <<call.method, " ">> \o call.path \o <<" failed (", ToString(call.res.status), "). ">>

ThroughRequestJson == call.op \in {"list", "create", "update", "toggle"}

\* C1: every operation fails on every response with a non-success status,
\* whatever its content type and body, with a message that begins
\* "{METHOD} {PATH} failed ({STATUS})." for the method and path of the request
\* and the status of the response; the non-JSON and invalid-JSON messages are
\* never produced for such a response.
C1_NonSuccessFails ==
    (Answered /\ ~Ok(call.res)) =>
        /\ call.out.threw
        /\ StartsWith(call.out.message, FailedPrefix)
        /\ ~Includes(call.out.message, <<"Unexpected non-JSON response">>)
        /\ ~Includes(call.out.message, <<"Invalid JSON response">>)

C1_Witness ==
    /\ call.op = "delete"
    /\ call.res.status = 404
    /\ call.res.ctype = <<"application/json">>
    /\ call.res.body = <<"{", Q, "id", Q, ":">>
    /\ call.out.threw
    /\ call.out.message = <<"DELETE", " ", "/tasks/", "2", " failed (", "404", "). ">> \o OtherHint

\* C2: a non-success response whose body begins with <!DOCTYPE gives a failure
\* message that contains "Received HTML instead of JSON", for every declared
\* content type, JSON or not.
C2_Original ==
    (Answered /\ ~Ok(call.res) /\ ~call.res.unreadable
        /\ StartsWith(call.res.body, <<"<!DOCTYPE">>)) =>
        (call.out.threw /\ Includes(call.out.message, <<"Received HTML instead of JSON">>))

\* C3 as stated: on a success status with a non-JSON content type every
\* operation, delete included, fails with the non-JSON message.
C3_Original ==
    (Answered /\ Ok(call.res) /\ ~IsJsonType(call.res.ctype)) =>
        /\ call.out.threw
        /\ StartsWith(call.out.message,
                      <<"Unexpected non-JSON response", " for ", call.method, " ">>
                          \o call.path)

\* C3, amended: on a success status with a non-JSON content type list, create,
\* update and toggle fail with "Unexpected non-JSON response for {METHOD}
\* {PATH}. Check API base URL configuration."; delete succeeds and returns no
\* value.
C3_NonJsonSuccess ==
    (Answered /\ Ok(call.res) /\ ~IsJsonType(call.res.ctype)) =>
        IF ThroughRequestJson
        THEN /\ call.out.threw
             /\ call.out.message =
                    <<"Unexpected non-JSON response", " for ", call.method, " ">>
                        \o call.path \o <<". Check API base URL configuration.">>
        ELSE ~call.out.threw /\ call.out.value = Undefined

C3_Witness ==
    /\ call.op = "list"
    /\ call.res.status = 200
    /\ call.res.ctype = <<"text/html">>
    /\ call.res.body = HtmlPage
    /\ call.out.threw
    /\ StartsWith(call.out.message,
                  <<"Unexpected non-JSON response", " for ", "GET", " ", "/tasks">>)

\* C4 as stated: on a success status with a JSON content type and a body that
\* does not decode, the client (whichever operation) fails with the
\* invalid-JSON message.
C4_Original ==
    (Answered /\ Ok(call.res) /\ IsJsonType(call.res.ctype) /\ ~BodyParses(call.res)) =>
        /\ call.out.threw
        /\ StartsWith(call.out.message,
                      <<"Invalid JSON response", " for ", call.method, " ">> \o call.path)
        /\ ~Includes(call.out.message, <<"Unexpected non-JSON response">>)
        /\ ~Includes(call.out.message, <<"SyntaxError">>)

\* C4, amended: on a success status with a JSON content type and a body that
\* does not decode, list, create, update and toggle fail with "Invalid JSON
\* response for {METHOD} {PATH}. ...", never with the non-JSON message or the
\* decode error; delete does not read the body and succeeds.
C4_InvalidJson ==
    (Answered /\ Ok(call.res) /\ IsJsonType(call.res.ctype) /\ ~BodyParses(call.res)) =>
        IF ThroughRequestJson
        THEN /\ call.out.threw
             /\ StartsWith(call.out.message,
                           <<"Invalid JSON response", " for ", call.method, " ">>
                               \o call.path)
             /\ ~Includes(call.out.message, <<"Unexpected non-JSON response">>)
             /\ ~Includes(call.out.message, <<"SyntaxError">>)
        ELSE ~call.out.threw /\ call.out.value = Undefined

C4_Witness ==
    /\ call.op = "toggle"
    /\ call.res.status = 200
    /\ call.res.ctype = <<"application/problem", "+json">>
    /\ call.res.body = HtmlPage
    /\ ~call.res.unreadable
    /\ call.out.threw
    /\ StartsWith(call.out.message,
                  <<"Invalid JSON response", " for ", "POST", " ", "/tasks/", "1", "/toggle">>)

\* C5 as stated: on a success status with a JSON content type and a body that
\* decodes, list, create, update and toggle return the decoded value
\* unchanged, whatever JSON value it is.
C5_Original ==
    (Answered /\ ThroughRequestJson /\ Ok(call.res) /\ IsJsonType(call.res.ctype)
        /\ BodyParses(call.res)) =>
        /\ ~call.out.threw
        /\ SameValue(call.out.value, JsonParse(call.res.body).val)

\* C6: deleteTask on a response with a success status succeeds and returns no
\* value, whatever the content type and the body (none for a 204) and whether
\* or not the body can be read: it does not read the body of a success
\* response.
C6_DeleteSuccess ==
    (Answered /\ call.op = "delete" /\ Ok(call.res)) =>
        (~call.out.threw /\ call.out.value = Undefined)

C6_Witness ==
    /\ call.op = "delete"
    /\ call.path = <<"/tasks/", "2">>
    /\ call.res.status = 204
    /\ call.res.ctype = <<>>
    /\ call.res.body = <<>>
    /\ ~call.out.threw
    /\ call.out.value = Undefined

----------------------------------------------------------------------------
\* Properties of the App, checked under Spec.

\* In this step the response of the call in slot s arrived.
ArrivedAt(s) == inflight[s].phase = "answered" /\ inflight'[s] = NoCall

IsCompleted(t) == Truthy(Field(t, "is_completed"))
IdOf(t) == Field(t, "id").v

\* The entries of a list that are not the task with this identifier.
Others(list, id) == SelectSeq(list, LAMBDA t : IdOf(t) # id)

\* C7: when the response of a handler's call arrives and the client operation
\* fails on it, the handler sends no further request, the displayed error
\* becomes the failure's message (the component being mounted), and the task
\* list, the new-title input, editingId and editingTitle stay as they were.
C7_FailureLeavesState ==
    [][\A s \in Slots :
          (ArrivedAt(s) /\ OutcomeOf(inflight[s]).threw) =>
              /\ tasks' = tasks
              /\ newTitle' = newTitle
              /\ editingId' = editingId
              /\ editingTitle' = editingTitle
              /\ issued' = issued
              /\ \A r \in Slots \ {s} : inflight'[r] = inflight[r]
              /\ ~cancelled => error' = OutcomeOf(inflight[s]).message]_vars

\* A failure is displayed over a list, an input and an edit session it left alone.
C7_Witness ==
    /\ ~cancelled
    /\ Includes(error, <<" failed (">>)
    /\ tasks # <<>>
    /\ editingId \in LocalIds
    /\ editingTitle = <<" ", "b", " ">>
    /\ newTitle = <<" ", "b", " ">>

\* C8: when the response of a toggle or an update of a task arrives and the
\* operation succeeds, every local entry with that task's identifier becomes
\* the Task the response carries, and the other entries stay, in their order:
\* responses are applied in arrival order, so the one that arrives last wins.
C8_LastArrivalWins ==
    [][\A s \in Slots :
          (/\ ArrivedAt(s)
           /\ ~cancelled
           /\ inflight[s].kind \in {"toggle", "save"}
           /\ ~OutcomeOf(inflight[s]).threw) =>
              LET c == inflight[s]
                  carried == OutcomeOf(c).value
              IN  /\ \A i \in 1..Len(tasks') :
                        IdOf(tasks'[i]) = c.id => tasks'[i] = carried
                  /\ c.id \in LocalIds => \E i \in 1..Len(tasks') : tasks'[i] = carried
                  /\ Others(tasks', c.id) = Others(tasks, c.id)]_vars

\* Nothing is pending or failed, and the local copy of a task differs from the
\* server's: two responses for it arrived in the order opposite to the one the
\* server handled the requests in.
C8_Witness ==
    /\ ~cancelled
    /\ error = <<>>
    /\ \A s \in Slots : inflight[s] = NoCall
    /\ \E i \in 1..Len(tasks) :
          /\ IdOf(tasks[i]) \in DOMAIN server
          /\ tasks[i] # server[IdOf(tasks[i])]

\* C9 as stated: in every reachable state every incomplete task precedes every
\* completed one and within each group identifiers are strictly descending.
C9_Original ==
    \A i, j \in 1..Len(tasks) :
        i < j =>
            IF IsCompleted(tasks[i]) # IsCompleted(tasks[j])
            THEN IsCompleted(tasks[j])
            ELSE IdOf(tasks[i]) > IdOf(tasks[j])

\* C9, amended: in every reachable state every incomplete task precedes every
\* completed one and within each group identifiers are descending, not
\* strictly: the list may hold two entries for one task (a create whose
\* response arrives after a load that already lists the created task).
C9_Sorted ==
    \A i, j \in 1..Len(tasks) :
        i < j =>
            IF IsCompleted(tasks[i]) # IsCompleted(tasks[j])
            THEN IsCompleted(tasks[j])
            ELSE IdOf(tasks[i]) >= IdOf(tasks[j])

\* A newer completed task is listed behind an older incomplete one.
C9_Witness ==
    /\ Len(tasks) = 2
    /\ ~IsCompleted(tasks[1]) /\ IdOf(tasks[1]) = 1
    /\ IsCompleted(tasks[2]) /\ IdOf(tasks[2]) = 2

\* C10: in every reachable state editingId is null or the identifier of a task
\* in the local list.
C10_Original == editingId = 0 \/ editingId \in LocalIds

====
